---- MODULE Spec2Model ----
(***************************************************************************)
(* Model of the self-checkout screen monitor: the device state machine     *)
(* (src/src/core/device_state.py: DeviceState, DeviceStateManager and the  *)
(* debounce of transitions to idle), the notifier it calls                 *)
(* (device_notifier.py), the sampler / detector pool / result thread       *)
(* pipeline (screen_analyzer.py) and the frame cache of a stream           *)
(* (rtsp_stream.py).                                                       *)
(*                                                                         *)
(* Time is counted in whole units: CONFIRMATION_TIME_WINDOW = 3.0 is 3.    *)
(* Where update_state is driven directly, timestamps are handed to it in   *)
(* non-decreasing order; equal timestamps stand for frames sampled within  *)
(* one unit.  In the pipeline the timestamps are those of the sampler, in  *)
(* the order the result thread meets them.  The confidence argument of     *)
(* update_state only appears in log messages and is left out.              *)
(*                                                                         *)
(* Specifications: Spec (one device, any label at any step), SpecRuns      *)
(* (the same, with the runs of same-label calls tracked), SpecScript (a    *)
(* fresh device fed a fixed observation sequence), SpecHistory (one        *)
(* session long enough to overflow the state history), SpecNotify (a       *)
(* manager with a notifier whose calls meet any outcome), SpecPool (the    *)
(* pipeline from start_monitoring to the return of stop_monitoring),       *)
(* SpecIntake (its input side, with enough samples to fill the input       *)
(* queue), SpecStream (one stream under start, stop and get_frame),        *)
(* SpecFleet (two devices, any label at any step), SpecDebounce (one       *)
(* device, with its recent idle observations remembered) and SpecRestart   *)
(* (the pipeline across start_monitoring and stop_monitoring calls, with   *)
(* one result thread per start).                                           *)
(* An Optional[T] field is a sequence of length at most one: None is <<>>  *)
(* and a present value v is <<v>>.                                         *)
(***************************************************************************)
EXTENDS Integers, Sequences, FiniteSets, TLC

VARIABLES
    devices,    \* DeviceStateManager.devices: device_id -> DeviceState
    nextSid,    \* the next value uuid.uuid4() hands out (fresh on every call)
    now,        \* the latest timestamp handed to update_state
    call,       \* device and label of the most recent update_state call
    msgs,       \* the state messages the most recent call logged, in order
    ret,        \* what the most recent update_state call returned
    log,        \* the non-empty events returned so far, oldest first
    streak,     \* per device: the current run of calls carrying one label
    watch,      \* the recent idle observations of device d1
    result_threads, \* per thread running _process_results: where it is, what it holds
    script,     \* the observation sequence a scripted run feeds
    pc,         \* how many observations of the script have been fed
    notifier,   \* DeviceStateManager.notifier is set (a config_loader was given)
    sent,       \* the notifier calls of the most recent update_state call
    is_running,     \* ScreenAnalyzer.is_running
    input_queue,    \* tasks and stop sentinels waiting for a worker, oldest first
    output_queue,   \* results the workers published, oldest first
    workers,        \* per detector process: where it is and the task it holds
    sampler,        \* where the sampler thread of device d1 is
    clock,          \* time.time() of the sampler's latest task
    dropped,        \* the timestamps of the tasks the sampler gave up submitting
    failures,       \* the workers in which a task raised an exception
    dispatcher,     \* where the result thread is
    logged,         \* the result the latest dispatcher round handed to _log_results
    stopper,        \* where stop_monitoring is
    stream,         \* RTSPStream: is_running, cap, current_frame, thread
    loops,          \* per thread started by start(): where _capture_frames is
    lock,           \* who holds RTSPStream.lock
    reads,          \* how many cap.read() calls have succeeded
    stopping,       \* where a stop() call is
    getter,         \* where a get_frame() call is
    got             \* what the latest get_frame() call returned

notifyVars == <<notifier, sent>>

poolVars == <<is_running, input_queue, output_queue, workers, sampler, clock,
              dropped, failures, dispatcher, logged, stopper>>

streamVars == <<stream, loops, lock, reads, stopping, getter, got>>

vars == <<devices, nextSid, now, call, msgs, ret, log, streak, watch,
          result_threads, script, pc,
          notifyVars, poolVars, streamVars>>

(***************************************************************************)
(* Bounds of the model.                                                    *)
(***************************************************************************)
MaxTime == 4
MaxEvents == 5
MaxRunEvents == 3
MaxStreak == 6
MaxScriptTime == 8
MaxAppends == 1003
MaxNotifyTime == 2
MaxNotifyEvents == 4
MaxSamples == 3
MaxIntake == 6
MaxLoops == 2
MaxReads == 3
MaxFleetTime == 1
MaxFleetEvents == 2
MaxDebounceTime == 4
MaxDebounceEvents == 3
MaxWatch == 8
MaxThreads == 2
MaxRestartSamples == 2

DeviceIds == {"d1", "d2"}
Times == 0..MaxTime

(***************************************************************************)
(* Constants of the program.                                               *)
(***************************************************************************)
IDLE_CONFIRMATION_COUNT == 5
CONFIRMATION_TIME_WINDOW == 3
HistoryCap == 1000
HistoryKeep == 500
QueueFactor == 2
CONFIDENCE_THRESHOLD == 50

States == {"idle", "start", "scan", "list", "over"}
\* The classifier's labels: the five states, and a class name that is none of
\* them (detector_process names an unknown class index "Class_<idx>").
Labels == States \cup {"Class_7"}

None == <<>>
Some(v) == <<v>>

\* VALID_TRANSITIONS with list -> start allowed.
VALID_TRANSITIONS_ListToStart ==
    [s \in States |->
        CASE s = "idle"  -> {"start"}
          [] s = "start" -> {"scan", "idle"}
          [] s = "scan"  -> {"list", "over", "idle"}
          [] s = "list"  -> {"scan", "over", "idle", "start"}
          [] s = "over"  -> {"idle"}]

VALID_TRANSITIONS ==
    [s \in States |->
        CASE s = "idle"  -> {"start"}
          [] s = "start" -> {"scan", "idle"}
          [] s = "scan"  -> {"list", "over", "idle"}
          [] s = "list"  -> {"scan", "over", "idle"}
          [] s = "over"  -> {"idle"}]

is_valid_transition_AllowsUnknown(old_state, new_state) ==
    IF old_state \notin DOMAIN VALID_TRANSITIONS
    THEN FALSE
    ELSE new_state \notin DOMAIN VALID_TRANSITIONS
         \/ new_state \in VALID_TRANSITIONS[old_state]

is_valid_transition(old_state, new_state) ==
    IF old_state \notin DOMAIN VALID_TRANSITIONS
    THEN FALSE
    ELSE new_state \in VALID_TRANSITIONS[old_state]

(***************************************************************************)
(* DeviceState                                                             *)
(***************************************************************************)
DeviceState(device_id) ==
    [id                 |-> device_id,
     current_state      |-> "idle",
     session_id         |-> None,
     session_start      |-> None,
     scan_count         |-> 0,
     last_update        |-> None,
     state_history      |-> <<>>,
     pending_state      |-> None,
     pending_count      |-> 0,
     pending_timestamps |-> <<>>]

reset_KeepsSession(device) ==
    [device EXCEPT !.session_start = None,
                   !.scan_count = 0,
                   !.state_history = <<>>,
                   !.pending_state = None,
                   !.pending_count = 0,
                   !.pending_timestamps = <<>>]

reset(device) ==
    [device EXCEPT !.session_id = None,
                   !.session_start = None,
                   !.scan_count = 0,
                   !.state_history = <<>>,
                   !.pending_state = None,
                   !.pending_count = 0,
                   !.pending_timestamps = <<>>]

add_to_history_KeepsOldest(device, timestamp, state) ==
    LET appended == Append(device.state_history, <<timestamp, state>>)
    IN  [device EXCEPT !.state_history =
            IF Len(appended) > HistoryCap
            THEN SubSeq(appended, 1, HistoryKeep)
            ELSE appended]

add_to_history(device, timestamp, state) ==
    LET appended == Append(device.state_history, <<timestamp, state>>)
    IN  [device EXCEPT !.state_history =
            IF Len(appended) > HistoryCap
            THEN SubSeq(appended, Len(appended) - HistoryKeep + 1, Len(appended))
            ELSE appended]

ClearPending(device) ==
    [device EXCEPT !.pending_state = None,
                   !.pending_count = 0,
                   !.pending_timestamps = <<>>]

(***************************************************************************)
(* Events.  update_state returns {} (NoEvent) or an event dictionary.      *)
(***************************************************************************)
NoEvent == [event_type |-> "none"]

Event(device, old_state, new_state, timestamp, event_type, details) ==
    [event_type |-> event_type,
     device_id  |-> device.id,
     old_state  |-> old_state,
     new_state  |-> new_state,
     timestamp  |-> timestamp,
     details    |-> details]

NoDetails == [none |-> TRUE]

\* Python truthiness of an Optional[float]: None and 0.0 are false.
Truthy(opt) == opt # None /\ opt[1] # 0

(***************************************************************************)
(* DeviceStateManager._handle_state_transition, branch by branch.  Each    *)
(* branch yields the device record, the returned event and, in notify, the *)
(* notifier calls it makes when a notifier is configured: "101", "102" and *)
(* "106" are notify_device codes, "dismiss" is send_mqtt_dismiss.  A       *)
(* branch that calls the notifier also gives, in at_notify, the record as  *)
(* it is at the moment of the call.                                        *)
(***************************************************************************)
SessionStartBranch(device, old_state, new_state, timestamp, sid) ==
    LET d1 == [device EXCEPT !.session_id = Some(sid),
                             !.session_start = Some(timestamp),
                             !.scan_count = 0]
    IN  [device |-> d1,
         event  |-> Event(d1, old_state, new_state, timestamp, "session_start",
                          [session_id |-> d1.session_id, start_time |-> timestamp]),
         uuid_used |-> TRUE,
         msgs |-> <<"session_start">>,
         notify |-> <<"101">>,
         at_notify |-> d1]

ProductScanBranch_StaleNumber(device, old_state, new_state, timestamp) ==
    LET d1 == [device EXCEPT !.scan_count = device.scan_count + 1]
    IN  [device |-> d1,
         event  |-> Event(d1, old_state, new_state, timestamp, "product_scan",
                          [scan_number |-> device.scan_count,
                           session_id  |-> d1.session_id]),
         uuid_used |-> FALSE,
         msgs |-> <<"product_scan">>,
         notify |-> <<"102", "dismiss">>,
         at_notify |-> d1]

ProductScanBranch(device, old_state, new_state, timestamp) ==
    LET d1 == [device EXCEPT !.scan_count = device.scan_count + 1]
    IN  [device |-> d1,
         event  |-> Event(d1, old_state, new_state, timestamp, "product_scan",
                          [scan_number |-> d1.scan_count,
                           session_id  |-> d1.session_id]),
         uuid_used |-> FALSE,
         msgs |-> <<"product_scan">>,
         notify |-> <<"102", "dismiss">>,
         at_notify |-> d1]

ViewListBranch_StateChange(device, old_state, new_state, timestamp) ==
    [device |-> device,
     event  |-> Event(device, old_state, new_state, timestamp, "state_change", NoDetails),
     uuid_used |-> FALSE,
     msgs |-> <<"state_change">>,
     notify |-> <<>>]

ViewListBranch(device, old_state, new_state, timestamp) ==
    [device |-> device,
     event  |-> Event(device, old_state, new_state, timestamp, "view_list", NoDetails),
     uuid_used |-> FALSE,
     msgs |-> <<"view_list">>,
     notify |-> <<>>]

SessionEndBranch_ResetFirst(device, old_state, new_state, timestamp) ==
    IF device.session_id # None
    THEN LET cleared == reset(device)
             duration == IF Truthy(device.session_start)
                         THEN timestamp - device.session_start[1]
                         ELSE 0
             end_type == IF new_state = "over" THEN "completed" ELSE "abandoned"
         IN  [device |-> cleared,
              event  |-> Event(device, old_state, new_state, timestamp, "session_end",
                               [session_id       |-> cleared.session_id,
                                end_type         |-> end_type,
                                duration_seconds |-> duration,
                                total_scans      |-> device.scan_count,
                                end_time         |-> timestamp]),
              uuid_used |-> FALSE,
              msgs |-> <<"session_end">>,
              notify |-> <<"106">>,
              at_notify |-> device]
    ELSE [device |-> device, event |-> NoEvent, uuid_used |-> FALSE,
          msgs |-> <<"end_without_session">>, notify |-> <<>>]

SessionEndBranch(device, old_state, new_state, timestamp) ==
    IF device.session_id # None
    THEN LET duration == IF Truthy(device.session_start)
                         THEN timestamp - device.session_start[1]
                         ELSE 0
             end_type == IF new_state = "over" THEN "completed" ELSE "abandoned"
         IN  [device |-> reset(device),
              event  |-> Event(device, old_state, new_state, timestamp, "session_end",
                               [session_id       |-> device.session_id,
                                end_type         |-> end_type,
                                duration_seconds |-> duration,
                                total_scans      |-> device.scan_count,
                                end_time         |-> timestamp]),
              uuid_used |-> FALSE,
              msgs |-> <<"session_end">>,
              notify |-> <<"106">>,
              at_notify |-> device]
    ELSE [device |-> device, event |-> NoEvent, uuid_used |-> FALSE,
          msgs |-> <<"end_without_session">>, notify |-> <<>>]

handle_state_transition(device, old_state, new_state, timestamp, sid) ==
    IF new_state = "start"
       /\ (old_state = "idle" \/ (old_state = "list" /\ device.session_id = None))
    THEN SessionStartBranch(device, old_state, new_state, timestamp, sid)
    ELSE IF new_state = "scan" /\ old_state # "scan"
    THEN ProductScanBranch(device, old_state, new_state, timestamp)
    ELSE IF old_state = "scan" /\ new_state = "list"
    THEN ViewListBranch(device, old_state, new_state, timestamp)
    ELSE IF old_state = "list" /\ new_state = "scan"
    THEN ProductScanBranch(device, old_state, new_state, timestamp)
    ELSE IF (new_state = "over" /\ old_state \in {"scan", "list"})
            \/ (new_state = "idle" /\ old_state \in {"start", "scan", "list"})
    THEN SessionEndBranch(device, old_state, new_state, timestamp)
    ELSE IF old_state = "over" /\ new_state = "idle"
    THEN [device |-> device, event |-> NoEvent, uuid_used |-> FALSE, msgs |-> <<>>,
          notify |-> <<>>]
    ELSE [device |-> device,
          event  |-> Event(device, old_state, new_state, timestamp, "state_change", NoDetails),
          uuid_used |-> FALSE,
          msgs |-> <<"state_change">>,
          notify |-> <<>>]

(***************************************************************************)
(* DeviceStateManager.update_state, after the device record is looked up.  *)
(***************************************************************************)
Quiet(device, message) ==
    [device |-> device, event |-> NoEvent, uuid_used |-> FALSE, msgs |-> message,
     notify |-> <<>>]

\* lines 82-88: the detected state is the current state
\* SameStateBranch that leaves the pending confirmation in place.
SameStateBranch_KeepsPending(device) == Quiet(device, <<>>)

SameStateBranch(device) ==
    Quiet(IF device.pending_state # None THEN ClearPending(device) ELSE device, <<>>)

RejectBranch_ClearsPending(device) == Quiet(ClearPending(device), <<"rejected">>)

\* lines 91-96: the transition is not in the table
RejectBranch(device) == Quiet(device, <<"rejected">>)

Commit_KeepsState(device, detected_state, timestamp, sid) ==
    LET old_state == device.current_state
        d1 == [device EXCEPT !.last_update = Some(timestamp)]
        d2 == add_to_history(d1, timestamp, detected_state)
        d3 == ClearPending(d2)
    IN  handle_state_transition(d3, old_state, detected_state, timestamp, sid)

\* lines 112-121 and 151-160: the transition is committed
\* Commit that leaves the pending confirmation in place.
Commit_KeepsPending(device, detected_state, timestamp, sid) ==
    LET old_state == device.current_state
        d1 == [device EXCEPT !.current_state = detected_state,
                             !.last_update = Some(timestamp)]
        d2 == add_to_history(d1, timestamp, detected_state)
    IN  handle_state_transition(d2, old_state, detected_state, timestamp, sid)

Commit(device, detected_state, timestamp, sid) ==
    LET old_state == device.current_state
        d1 == [device EXCEPT !.current_state = detected_state,
                             !.last_update = Some(timestamp)]
        d2 == add_to_history(d1, timestamp, detected_state)
        d3 == ClearPending(d2)
    IN  handle_state_transition(d3, old_state, detected_state, timestamp, sid)

RestartPending_Slides(device, detected_state, timestamp) ==
    LET kept == IF device.pending_timestamps = <<>>
                THEN <<timestamp>>
                ELSE Tail(device.pending_timestamps)
    IN  [device EXCEPT !.pending_state = Some(detected_state),
                       !.pending_count = Len(kept),
                       !.pending_timestamps = kept]

\* lines 124-126 and 140-142: a confirmation starts (again) at this observation
\* RestartPending that discards the current observation as well.
RestartPending_Discards(device, detected_state, timestamp) == ClearPending(device)

RestartPending(device, detected_state, timestamp) ==
    [device EXCEPT !.pending_state = Some(detected_state),
                   !.pending_count = 1,
                   !.pending_timestamps = <<timestamp>>]

ConfirmBranch_OffByOne(device, detected_state, timestamp, sid) ==
    IF device.pending_state = Some(detected_state)
    THEN LET d1 == [device EXCEPT
                       !.pending_count = device.pending_count + 1,
                       !.pending_timestamps = Append(device.pending_timestamps, timestamp)]
         IN  IF d1.pending_count > IDLE_CONFIRMATION_COUNT
             THEN LET time_span == timestamp - d1.pending_timestamps[1]
                  IN  IF time_span <= CONFIRMATION_TIME_WINDOW
                      THEN Commit(d1, detected_state, timestamp, sid)
                      ELSE Quiet(RestartPending(d1, detected_state, timestamp),
                                 <<"confirmation_timeout">>)
             ELSE Quiet(d1, <<"waiting">>)
    ELSE Quiet(RestartPending(device, detected_state, timestamp), <<"potential_change">>)

\* lines 101-148: a transition to idle that needs confirmation
\* ConfirmBranch that commits on the fifth observation whatever the span.
ConfirmBranch_NoWindow(device, detected_state, timestamp, sid) ==
    IF device.pending_state = Some(detected_state)
    THEN LET d1 == [device EXCEPT
                       !.pending_count = device.pending_count + 1,
                       !.pending_timestamps = Append(device.pending_timestamps, timestamp)]
         IN  IF d1.pending_count >= IDLE_CONFIRMATION_COUNT
             THEN Commit(d1, detected_state, timestamp, sid)
             ELSE Quiet(d1, <<"waiting">>)
    ELSE Quiet(RestartPending(device, detected_state, timestamp), <<"potential_change">>)

\* ConfirmBranch that takes a span equal to the window for a timeout.
ConfirmBranch_StrictWindow(device, detected_state, timestamp, sid) ==
    IF device.pending_state = Some(detected_state)
    THEN LET d1 == [device EXCEPT
                       !.pending_count = device.pending_count + 1,
                       !.pending_timestamps = Append(device.pending_timestamps, timestamp)]
         IN  IF d1.pending_count >= IDLE_CONFIRMATION_COUNT
             THEN LET time_span == timestamp - d1.pending_timestamps[1]
                  IN  IF time_span < CONFIRMATION_TIME_WINDOW
                      THEN Commit(d1, detected_state, timestamp, sid)
                      ELSE Quiet(RestartPending(d1, detected_state, timestamp),
                                 <<"confirmation_timeout">>)
             ELSE Quiet(d1, <<"waiting">>)
    ELSE Quiet(RestartPending(device, detected_state, timestamp), <<"potential_change">>)

ConfirmBranch(device, detected_state, timestamp, sid) ==
    IF device.pending_state = Some(detected_state)
    THEN LET d1 == [device EXCEPT
                       !.pending_count = device.pending_count + 1,
                       !.pending_timestamps = Append(device.pending_timestamps, timestamp)]
         IN  IF d1.pending_count >= IDLE_CONFIRMATION_COUNT
             THEN LET time_span == timestamp - d1.pending_timestamps[1]
                  IN  IF time_span <= CONFIRMATION_TIME_WINDOW
                      THEN Commit(d1, detected_state, timestamp, sid)
                      ELSE Quiet(RestartPending(d1, detected_state, timestamp),
                                 <<"confirmation_timeout">>)
             ELSE Quiet(d1, <<"waiting">>)
    ELSE Quiet(RestartPending(device, detected_state, timestamp), <<"potential_change">>)

update_state(device, detected_state, timestamp, sid) ==
    IF device.current_state = detected_state
    THEN SameStateBranch(device)
    ELSE IF ~is_valid_transition(device.current_state, detected_state)
    THEN RejectBranch(device)
    ELSE IF detected_state = "idle" /\ device.current_state # "over"
    THEN ConfirmBranch(device, detected_state, timestamp, sid)
    ELSE Commit(device, detected_state, timestamp, sid)

(***************************************************************************)
(* DeviceNotifier (src/src/core/device_notifier.py).  What happens to one  *)
(* notification is an input: the device answers 200 (success), the device  *)
(* or its address is missing from the configuration, the request times     *)
(* out, the connection fails, or the device answers another status.  For   *)
(* send_mqtt_dismiss the same five stand for: published, target or broker  *)
(* missing from the configuration, an exception while connecting, and a    *)
(* publish result other than success.                                      *)
(***************************************************************************)
Outcomes == {"success", "missing_config", "timeout", "connection_error", "failure_status"}

notify_device_Propagates(outcome) ==
    CASE outcome = "missing_config" -> [returned |-> FALSE, raised |-> FALSE]
      [] outcome = "timeout" -> [returned |-> FALSE, raised |-> TRUE]
      [] outcome = "connection_error" -> [returned |-> FALSE, raised |-> FALSE]
      [] OTHER -> [returned |-> outcome = "success", raised |-> FALSE]

\* One notifier call: the boolean it returns, and whether an exception leaves it.
notify_device(outcome) ==
    CASE outcome = "missing_config" -> [returned |-> FALSE, raised |-> FALSE]
      [] outcome = "timeout" -> [returned |-> FALSE, raised |-> FALSE]
      [] outcome = "connection_error" -> [returned |-> FALSE, raised |-> FALSE]
      [] OTHER -> [returned |-> outcome = "success", raised |-> FALSE]

NotifierCall(signal, outcome) ==
    [signal   |-> signal,
     outcome  |-> outcome,
     returned |-> notify_device(outcome).returned,
     raised   |-> notify_device(outcome).raised]

\* The index of the first call an exception leaves, or 0.
FirstRaised(calls) ==
    IF \E i \in 1..Len(calls) : calls[i].raised
    THEN CHOOSE i \in 1..Len(calls) :
            calls[i].raised /\ \A j \in 1..(i - 1) : ~calls[j].raised
    ELSE 0

with_notifier_StopsAtFailure(r, configured, outcomes) ==
    IF ~configured \/ r.notify = <<>>
    THEN [device |-> r.device, event |-> r.event, uuid_used |-> r.uuid_used,
          msgs |-> r.msgs, sent |-> <<>>]
    ELSE LET calls == [i \in 1..Len(r.notify) |-> NotifierCall(r.notify[i], outcomes[i])]
             k     == IF \E i \in 1..Len(calls) : ~calls[i].returned
                      THEN CHOOSE i \in 1..Len(calls) :
                              ~calls[i].returned
                              /\ \A j \in 1..(i - 1) : calls[j].returned
                      ELSE 0
         IN  [device |-> r.device, event |-> r.event, uuid_used |-> r.uuid_used,
              msgs |-> r.msgs,
              sent |-> IF k = 0 THEN calls ELSE SubSeq(calls, 1, k)]

\* An update_state result r with its `if self.notifier:` blocks executed.  The
\* calls are statements: what they return is dropped.  An exception leaving a
\* call would leave update_state at that point, with the record as it is then
\* and no event returned.
with_notifier(r, configured, outcomes) ==
    IF ~configured \/ r.notify = <<>>
    THEN [device |-> r.device, event |-> r.event, uuid_used |-> r.uuid_used,
          msgs |-> r.msgs, sent |-> <<>>]
    ELSE LET calls == [i \in 1..Len(r.notify) |-> NotifierCall(r.notify[i], outcomes[i])]
             k     == FirstRaised(calls)
         IN  IF k = 0
             THEN [device |-> r.device, event |-> r.event, uuid_used |-> r.uuid_used,
                   msgs |-> r.msgs, sent |-> calls]
             ELSE [device |-> r.at_notify, event |-> NoEvent, uuid_used |-> r.uuid_used,
                   msgs |-> r.msgs, sent |-> SubSeq(calls, 1, k)]

(***************************************************************************)
(* The state machine as a transition system.                               *)
(***************************************************************************)
\* lines 75-79: the record of a device, created on its first observation
Lookup(device_id) ==
    IF device_id \in DOMAIN devices THEN devices[device_id] ELSE DeviceState(device_id)

\* What the log keeps of an event: its type, device and details, without times.
LogEntry(event) ==
    [event_type |-> event.event_type,
     device_id  |-> event.device_id,
     details    |->
        CASE event.event_type = "session_start" ->
                 [session_id |-> event.details.session_id]
          [] event.event_type = "session_end" ->
                 [session_id  |-> event.details.session_id,
                  end_type    |-> event.details.end_type,
                  total_scans |-> event.details.total_scans]
          [] OTHER -> event.details]

\* The run of consecutive calls for one device that carry the same label:
\* its label, its length n (counted up to MaxStreak), the timestamp of its
\* first call, whether no confirmation was pending when it began (clean), how
\* many events its calls returned (counted up to 2) and whether one of its
\* calls changed current_state.
NoStreak ==
    [label |-> "none", n |-> 0, first |-> 0, clean |-> TRUE, events |-> 0,
     changed |-> FALSE]

Min(a, b) == IF a < b THEN a ELSE b

NextStreak(old, before, after, event, detected_state, timestamp) ==
    LET continues == old.label = detected_state
        gave      == IF event = NoEvent THEN 0 ELSE 1
        moved     == after.current_state # before.current_state
    IN  IF continues
        THEN [old EXCEPT !.n = Min(old.n + 1, MaxStreak),
                         !.events = Min(old.events + gave, 2),
                         !.changed = old.changed \/ moved]
        ELSE [label   |-> detected_state,
              n       |-> 1,
              first   |-> timestamp,
              clean   |-> before.pending_state = None,
              events  |-> gave,
              changed |-> moved]

\* What is remembered of the idle observations of one device: since, the
\* timestamps of the latest idle observations with no observation of the
\* current state and no committed transition after them; and, of the current
\* run of consecutive idle observations: its length n, its latest
\* observations, whether every five consecutive ones span at most the window
\* (tight) or more (loose), whether nothing was pending before it (clean),
\* the state it began in, and whether it has ended the session; emptied
\* tells whether the latest call found a confirmation pending and left none
\* without changing current_state.
NoWatch ==
    [since |-> <<>>, n |-> 0, last |-> <<>>, tight |-> TRUE, loose |-> TRUE,
     clean |-> TRUE, from |-> "idle", ended |-> FALSE, emptied |-> FALSE]

Recent(s, k) == IF Len(s) > k THEN SubSeq(s, Len(s) - k + 1, Len(s)) ELSE s

NextWatch(old, before, after, event, messages, detected_state, timestamp) ==
    LET moved == after.current_state # before.current_state
        since == IF moved \/ detected_state = before.current_state THEN <<>>
                 ELSE IF detected_state = "idle"
                 THEN Recent(Append(old.since, timestamp), IDLE_CONFIRMATION_COUNT - 1)
                 ELSE old.since
        entry == [t       |-> timestamp,
                  state   |-> before.current_state,
                  timeout |-> messages = <<"confirmation_timeout">>]
        last  == Recent(Append(old.last, entry), IDLE_CONFIRMATION_COUNT)
        five  == Len(last) = IDLE_CONFIRMATION_COUNT
        span  == timestamp - last[1].t
        abandoned == /\ event # NoEvent
                     /\ event.event_type = "session_end"
                     /\ event.details.end_type = "abandoned"
        emptied == /\ ~moved
                   /\ before.pending_state # None
                   /\ after.pending_state = None
    IN  IF detected_state # "idle"
        THEN [NoWatch EXCEPT !.since = since, !.emptied = emptied]
        ELSE [since |-> since,
              emptied |-> emptied,
              n     |-> Min(old.n + 1, MaxWatch),
              last  |-> last,
              tight |-> old.tight /\ (five => span <= CONFIRMATION_TIME_WINDOW),
              loose |-> old.loose /\ (five => span > CONFIRMATION_TIME_WINDOW),
              clean |-> IF old.n = 0 THEN before.pending_state = None ELSE old.clean,
              from  |-> IF old.n = 0 THEN before.current_state ELSE old.from,
              ended |-> old.ended \/ abandoned]

\* A DeviceStateManager right after construction: no device known yet.
InitManager ==
    /\ devices = <<>>
    /\ nextSid = 1
    /\ now = 0
    /\ call = [device_id |-> "none", detected_state |-> "none"]
    /\ msgs = <<>>
    /\ ret = NoEvent
    /\ log = <<>>
    /\ streak = [d \in DeviceIds |-> NoStreak]
    /\ watch = NoWatch

\* DeviceStateManager() without a config_loader: no notifier.
NoNotifier ==
    /\ notifier = FALSE
    /\ sent = <<>>

\* ScreenAnalyzer.__init__: not running, no queue, no process, no thread.
DetectorCount == 2
WorkerIds == 1..DetectorCount

ThreadIds == 1..MaxThreads

NoPool ==
    /\ is_running = FALSE
    /\ result_threads = [i \in ThreadIds |-> [pc |-> "unborn", results |-> None]]
    /\ input_queue = <<>>
    /\ output_queue = <<>>
    /\ workers = [w \in WorkerIds |-> [status |-> "off", task |-> None]]
    /\ sampler = "off"
    /\ clock = 0
    /\ dropped = {}
    /\ failures = {}
    /\ dispatcher = "off"
    /\ logged = None
    /\ stopper = [pc |-> "idle", i |-> 0]

\* RTSPStream.__init__
LoopIds == 1..MaxLoops

NewStream ==
    /\ stream = [is_running |-> FALSE, cap |-> "none", current_frame |-> None,
                 thread |-> 0]
    /\ loops = [i \in LoopIds |-> [pc |-> "unborn", frame |-> 0]]
    /\ lock = "free"
    /\ reads = 0
    /\ stopping = "idle"
    /\ getter = "idle"
    /\ got = None

Init ==
    /\ InitManager
    /\ script = <<>>
    /\ pc = 0
    /\ NoNotifier
    /\ NoPool
    /\ NewStream

\* Apply with one record shared by all the devices of the registry.
Apply_SharedRecord(device_id, detected_state, timestamp, r) ==
    LET created == device_id \notin DOMAIN devices
    IN  /\ devices' = [d \in DOMAIN devices \cup {device_id} |-> r.device]
        /\ nextSid' = IF r.uuid_used THEN nextSid + 1 ELSE nextSid
        /\ now' = timestamp
        /\ call' = [device_id |-> device_id, detected_state |-> detected_state]
        /\ msgs' = (IF created THEN <<"init">> ELSE <<>>) \o r.msgs
        /\ ret' = r.event
        /\ log' = IF r.event = NoEvent THEN log ELSE Append(log, LogEntry(r.event))

\* One update_state call with result r, as seen by the manager.
Apply(device_id, detected_state, timestamp, r) ==
    LET created == device_id \notin DOMAIN devices
    IN  /\ devices' = [d \in DOMAIN devices \cup {device_id} |->
                          IF d = device_id THEN r.device ELSE devices[d]]
        /\ nextSid' = IF r.uuid_used THEN nextSid + 1 ELSE nextSid
        /\ now' = timestamp
        /\ call' = [device_id |-> device_id, detected_state |-> detected_state]
        /\ msgs' = (IF created THEN <<"init">> ELSE <<>>) \o r.msgs
        /\ ret' = r.event
        /\ log' = IF r.event = NoEvent THEN log ELSE Append(log, LogEntry(r.event))

UpdateState(device_id, detected_state, timestamp) ==
    Apply(device_id, detected_state, timestamp,
          update_state(Lookup(device_id), detected_state, timestamp, nextSid))

\* update_state on a manager that may have a notifier; outcomes[i] is what
\* happens to the i-th notifier call.
UpdateStateNotify(device_id, detected_state, timestamp, outcomes) ==
    LET r == with_notifier(
                 update_state(Lookup(device_id), detected_state, timestamp, nextSid),
                 notifier, outcomes)
    IN  /\ Apply(device_id, detected_state, timestamp, r)
        /\ sent' = r.sent
        /\ UNCHANGED notifier

\* UpdateState with the run of same-label calls tracked.
UpdateStateRun(device_id, detected_state, timestamp) ==
    /\ UpdateState(device_id, detected_state, timestamp)
    /\ streak' = [streak EXCEPT ![device_id] =
                     NextStreak(streak[device_id], Lookup(device_id),
                                devices'[device_id], ret', detected_state, timestamp)]

\* The dispatcher feeding one device any label, in the order the frames were
\* sampled, until MaxEvents events have been returned.
Observe ==
    \E L \in Labels, t \in now..MaxTime :
        /\ UpdateState("d1", L, t)
        /\ Len(log') <= MaxEvents
        /\ UNCHANGED <<streak, watch, result_threads, script, pc, notifyVars, poolVars, streamVars>>

Next == Observe

Spec == Init /\ [][Next]_vars

\* The same dispatcher, with the runs of same-label calls tracked.
ObserveRun ==
    \E L \in Labels, t \in now..MaxTime :
        /\ UpdateStateRun("d1", L, t)
        /\ Len(log') <= MaxRunEvents
        /\ UNCHANGED <<watch, result_threads, script, pc, notifyVars, poolVars, streamVars>>

NextRuns == ObserveRun

SpecRuns == Init /\ [][NextRuns]_vars

(***************************************************************************)
(* Scripted runs: a fresh device is fed one observation per label of a     *)
(* fixed sequence, with increasing timestamps.                             *)
(***************************************************************************)
Lifecycle == <<"start", "scan", "list", "scan", "over", "idle">>
Scripts == {Lifecycle}

InitScript ==
    /\ InitManager
    /\ script \in Scripts
    /\ pc = 0
    /\ NoNotifier
    /\ NoPool
    /\ NewStream

Feed ==
    /\ pc < Len(script)
    /\ \E t \in (now + 1)..MaxScriptTime : UpdateState("d1", script[pc + 1], t)
    /\ pc' = pc + 1
    /\ UNCHANGED <<streak, watch, result_threads, script, notifyVars, poolVars, streamVars>>

NextScript == Feed

SpecScript == InitScript /\ [][NextScript]_vars

(***************************************************************************)
(* One long session: every observation is a valid transition that neither  *)
(* ends the session nor needs confirmation, so each call appends to the    *)
(* history; observation k carries timestamp k.                             *)
(***************************************************************************)
LongSession ==
    /\ now < MaxAppends
    /\ \E L \in VALID_TRANSITIONS[Lookup("d1").current_state] \ {"idle", "over"} :
          UpdateState("d1", L, now + 1)
    /\ UNCHANGED <<streak, watch, result_threads, script, pc, notifyVars, poolVars, streamVars>>

NextHistory == LongSession

SpecHistory == Init /\ [][NextHistory]_vars

(***************************************************************************)
(* A manager built with or without a notifier; every notifier call of an   *)
(* update meets any of the outcomes.                                       *)
(***************************************************************************)
InitNotify ==
    /\ InitManager
    /\ script = <<>>
    /\ pc = 0
    /\ notifier \in BOOLEAN
    /\ sent = <<>>
    /\ NoPool
    /\ NewStream

ObserveNotify ==
    \E L \in Labels, t \in now..MaxNotifyTime :
        LET r == update_state(Lookup("d1"), L, t, nextSid)
            n == IF notifier THEN Len(r.notify) ELSE 0
        IN  \E outcomes \in [1..n -> Outcomes] :
                /\ UpdateStateNotify("d1", L, t, outcomes)
                /\ Len(log') <= MaxNotifyEvents
                /\ UNCHANGED <<streak, watch, result_threads, script, pc, poolVars, streamVars>>

NextNotify == ObserveNotify

SpecNotify == InitNotify /\ [][NextNotify]_vars

(***************************************************************************)
(* ScreenAnalyzer (src/src/core/screen_analyzer.py): one sampler thread    *)
(* for device d1, DetectorCount detector processes, the result thread and  *)
(* stop_monitoring, from start_monitoring to the return of                 *)
(* stop_monitoring.  The input queue holds Some(task) for a task and None  *)
(* for the stop sentinel.  Confidences are in percent.  Every wait with a  *)
(* timeout may end at any moment; a wait without one ends only when what   *)
(* it waits for has happened.  The manager has a notifier; the notified    *)
(* devices answer every call.                                              *)
(***************************************************************************)
Capacity == DetectorCount * QueueFactor
PoolLabels == {"start", "scan"}
Confidences == {40, 50}

Task(device_id, timestamp) == [device_id |-> device_id, timestamp |-> timestamp]

AnalysisResult(task, class, confidence) ==
    [device_id  |-> task.device_id,
     timestamp  |-> task.timestamp,
     class      |-> class,
     confidence |-> confidence]

put_timeout_Unbounded(queue, item) ==
    [queue |-> Append(queue, item), full |-> FALSE]

\* Queue.put(item, timeout=0.1) at the moment it ends: the item is queued, or
\* the queue is still full and Full is raised.
put_timeout(queue, item) ==
    IF Len(queue) < Capacity
    THEN [queue |-> Append(queue, item), full |-> FALSE]
    ELSE [queue |-> queue, full |-> TRUE]

Accepts_Strict(confidence) == confidence > CONFIDENCE_THRESHOLD

\* line 151
Accepts(confidence) == confidence >= CONFIDENCE_THRESHOLD

AllSucceed(n) == [i \in 1..n |-> "success"]

Alive(w) == workers[w].status \in {"init", "waiting", "busy"}
LiveWorkers == {w \in WorkerIds : Alive(w)}

managerVars == <<devices, nextSid, now, call, msgs, ret, log>>

InitPool ==
    /\ InitManager
    /\ script = <<>>
    /\ pc = 0
    /\ notifier = TRUE
    /\ sent = <<>>
    /\ NoPool
    /\ NewStream

\* start_monitoring and _start_detector_pool
StartMonitoring ==
    /\ ~is_running
    /\ stopper.pc = "idle"
    /\ sampler = "off"
    /\ is_running' = TRUE
    /\ input_queue' = <<>>
    /\ output_queue' = <<>>
    /\ workers' = [w \in WorkerIds |-> [status |-> "init", task |-> None]]
    /\ dispatcher' = "check"
    /\ sampler' = "loop"
    /\ UNCHANGED <<clock, dropped, failures, logged, stopper>>
    /\ UNCHANGED <<managerVars, streak, watch, result_threads, script, pc, notifyVars, streamVars>>

\* _monitor_device, lines 217-226: a frame is there and becomes a task
SamplerSample(limit) ==
    /\ sampler = "loop"
    /\ is_running
    /\ clock < limit
    /\ clock' = clock + 1
    /\ sampler' = "put"
    /\ UNCHANGED <<is_running, input_queue, output_queue, workers, dropped, failures,
                   dispatcher, logged, stopper>>
    /\ UNCHANGED <<managerVars, streak, watch, result_threads, script, pc, notifyVars, streamVars>>

\* _monitor_device, lines 227-232: the put ends, queued or given up
SamplerPut ==
    /\ sampler = "put"
    /\ LET r == put_timeout(input_queue, Some(Task("d1", clock)))
       IN  /\ input_queue' = r.queue
           /\ dropped' = IF r.full THEN dropped \cup {clock} ELSE dropped
    /\ sampler' = "loop"
    /\ UNCHANGED <<is_running, output_queue, workers, clock, failures, dispatcher,
                   logged, stopper>>
    /\ UNCHANGED <<managerVars, streak, watch, result_threads, script, pc, notifyVars, streamVars>>

WorkerStep(w, status, task) ==
    /\ workers' = [workers EXCEPT ![w] = [status |-> status, task |-> task]]
    /\ UNCHANGED <<is_running, sampler, clock, dropped, dispatcher, logged, stopper>>
    /\ UNCHANGED <<managerVars, streak, watch, result_threads, script, pc, notifyVars, streamVars>>

\* detector_process, lines 19-20: the model is loaded
WorkerInit(w) ==
    /\ workers[w].status = "init"
    /\ WorkerStep(w, "waiting", None)
    /\ UNCHANGED <<input_queue, output_queue, failures>>

\* detector_process, lines 60-63: loading the model failed
WorkerInitFail(w) ==
    /\ workers[w].status = "init"
    /\ WorkerStep(w, "exited", None)
    /\ UNCHANGED <<input_queue, output_queue, failures>>

\* detector_process, lines 24-28
WorkerGet(w) ==
    /\ workers[w].status = "waiting"
    /\ input_queue # <<>>
    /\ input_queue' = Tail(input_queue)
    /\ IF Head(input_queue) = None
       THEN WorkerStep(w, "exited", None)
       ELSE WorkerStep(w, "busy", Head(input_queue))
    /\ UNCHANGED <<output_queue, failures>>

\* detector_process, lines 31-53
WorkerPublish(w) ==
    /\ workers[w].status = "busy"
    /\ \E class \in PoolLabels, confidence \in Confidences :
          output_queue' = Append(output_queue,
                                 AnalysisResult(workers[w].task[1], class, confidence))
    /\ WorkerStep(w, "waiting", None)
    /\ UNCHANGED <<input_queue, failures>>

WorkerFail_Exits(w) ==
    /\ workers[w].status = "busy"
    /\ failures' = failures \cup {w}
    /\ WorkerStep(w, "exited", None)
    /\ UNCHANGED <<input_queue, output_queue>>

\* detector_process, lines 57-58: the task raised an exception
WorkerFail(w) ==
    /\ workers[w].status = "busy"
    /\ failures' = failures \cup {w}
    /\ WorkerStep(w, "waiting", None)
    /\ UNCHANGED <<input_queue, output_queue>>

\* _process_results, line 145
DispatcherCheck ==
    /\ dispatcher = "check"
    /\ dispatcher' = IF is_running THEN "poll" ELSE "exited"
    /\ UNCHANGED <<is_running, input_queue, output_queue, workers, sampler, clock,
                   dropped, failures, logged, stopper>>
    /\ UNCHANGED <<managerVars, streak, watch, result_threads, script, pc, notifyVars, streamVars>>

\* _process_results, line 147: the output queue is empty
DispatcherIdle ==
    /\ dispatcher = "poll"
    /\ output_queue = <<>>
    /\ dispatcher' = "check"
    /\ UNCHANGED <<is_running, input_queue, output_queue, workers, sampler, clock,
                   dropped, failures, logged, stopper>>
    /\ UNCHANGED <<managerVars, streak, watch, result_threads, script, pc, notifyVars, streamVars>>

\* _process_results, lines 148-164
DispatcherTake ==
    /\ dispatcher = "poll"
    /\ output_queue # <<>>
    /\ output_queue' = Tail(output_queue)
    /\ LET results == Head(output_queue)
           r == update_state(Lookup(results.device_id), results.class,
                             results.timestamp, nextSid)
       IN  IF Accepts(results.confidence)
           THEN /\ UpdateStateNotify(results.device_id, results.class, results.timestamp,
                                     AllSucceed(Len(r.notify)))
                /\ logged' = Some(results)
           ELSE /\ logged' = None
                /\ UNCHANGED <<managerVars, notifyVars>>
    /\ dispatcher' = "check"
    /\ UNCHANGED <<is_running, input_queue, workers, sampler, clock, dropped, failures,
                   stopper>>
    /\ UNCHANGED <<streak, watch, result_threads, script, pc, streamVars>>

\* stop_monitoring, lines 195-205: the flag is cleared; the streams are stopped
\* and the sampler threads joined, each wait with a timeout
StopMonitoring ==
    /\ is_running
    /\ stopper.pc = "idle"
    /\ is_running' = FALSE
    /\ stopper' = [pc |-> "signal", i |-> 0]
    /\ UNCHANGED <<input_queue, output_queue, workers, sampler, clock, dropped,
                   failures, dispatcher, logged>>
    /\ UNCHANGED <<managerVars, streak, watch, result_threads, script, pc, notifyVars, streamVars>>

\* _stop_detector_pool, lines 125-127: input_queue.put(None), without timeout
StopSignal ==
    /\ stopper.pc = "signal"
    /\ Len(input_queue) < Capacity
    /\ input_queue' = Append(input_queue, None)
    /\ stopper' = IF stopper.i + 1 = DetectorCount
                  THEN [pc |-> "join", i |-> 0]
                  ELSE [pc |-> "signal", i |-> stopper.i + 1]
    /\ UNCHANGED <<is_running, output_queue, workers, sampler, clock, dropped,
                   failures, dispatcher, logged>>
    /\ UNCHANGED <<managerVars, streak, watch, result_threads, script, pc, notifyVars, streamVars>>

\* _stop_detector_pool, lines 130-135: join(timeout=5), terminate if alive
StopJoin ==
    /\ stopper.pc = "join"
    /\ LET w == stopper.i + 1
       IN  workers' = IF Alive(w)
                      THEN [workers EXCEPT ![w] = [status |-> "terminated", task |-> None]]
                      ELSE workers
    /\ stopper' = IF stopper.i + 1 = DetectorCount
                  THEN [pc |-> "join_result", i |-> 0]
                  ELSE [pc |-> "join", i |-> stopper.i + 1]
    /\ UNCHANGED <<is_running, input_queue, output_queue, sampler, clock, dropped,
                   failures, dispatcher, logged>>
    /\ UNCHANGED <<managerVars, streak, watch, result_threads, script, pc, notifyVars, streamVars>>

\* _stop_detector_pool, lines 138-141: result_thread.join(timeout=2), return
StopJoinResult ==
    /\ stopper.pc = "join_result"
    /\ stopper' = [pc |-> "done", i |-> 0]
    /\ UNCHANGED <<is_running, input_queue, output_queue, workers, sampler, clock,
                   dropped, failures, dispatcher, logged>>
    /\ UNCHANGED <<managerVars, streak, watch, result_threads, script, pc, notifyVars, streamVars>>

NextPool ==
    \/ StartMonitoring
    \/ SamplerSample(MaxSamples)
    \/ SamplerPut
    \/ \E w \in WorkerIds : WorkerInit(w)
    \/ \E w \in WorkerIds : WorkerInitFail(w)
    \/ \E w \in WorkerIds : WorkerGet(w)
    \/ \E w \in WorkerIds : WorkerPublish(w)
    \/ \E w \in WorkerIds : WorkerFail(w)
    \/ DispatcherCheck
    \/ DispatcherIdle
    \/ DispatcherTake
    \/ StopMonitoring
    \/ StopSignal
    \/ StopJoin
    \/ StopJoinResult

SpecPool == InitPool /\ [][NextPool]_vars

(***************************************************************************)
(* The input side alone, with enough samples to fill the input queue: the  *)
(* sampler, the workers taking tasks, and stop_monitoring.  What a worker  *)
(* makes of a task is left aside: here every task ends without a result.   *)
(***************************************************************************)
NextIntake ==
    \/ StartMonitoring
    \/ SamplerSample(MaxIntake)
    \/ SamplerPut
    \/ \E w \in WorkerIds : WorkerInit(w)
    \/ \E w \in WorkerIds : WorkerInitFail(w)
    \/ \E w \in WorkerIds : WorkerGet(w)
    \/ \E w \in WorkerIds : WorkerFail(w)
    \/ StopMonitoring
    \/ StopSignal
    \/ StopJoin
    \/ StopJoinResult

SpecIntake == InitPool /\ [][NextIntake]_vars

(***************************************************************************)
(* RTSPStream (src/src/core/rtsp_stream.py): one stream, the threads its   *)
(* start() calls create, a caller of start() and stop(), and a caller of   *)
(* get_frame().  cap is "none" (None), "closed" (a capture that is not     *)
(* opened) or "open".  The frame of the k-th successful read is k.  A      *)
(* join(timeout=5) ends when the thread has ended or when the 5 s are      *)
(* over; sleep(5), connecting and reading end at any moment.               *)
(***************************************************************************)
otherVars == <<managerVars, streak, watch, result_threads, script, pc, notifyVars, poolVars>>

InitStream ==
    /\ InitManager
    /\ script = <<>>
    /\ pc = 0
    /\ NoNotifier
    /\ NoPool
    /\ NewStream

Running(i) == loops[i].pc \notin {"unborn", "ended"}

LoopStep(i, to, frame) ==
    /\ loops' = [loops EXCEPT ![i] = [pc |-> to, frame |-> frame]]
    /\ UNCHANGED <<stopping, getter, got, otherVars>>

\* start()
StreamStart ==
    /\ stopping = "idle"
    /\ IF stream.is_running
       THEN UNCHANGED <<stream, loops>>
       ELSE /\ stream.thread < MaxLoops
            /\ stream' = [stream EXCEPT !.is_running = TRUE,
                                        !.thread = stream.thread + 1]
            /\ loops' = [loops EXCEPT ![stream.thread + 1].pc = "head"]
    /\ UNCHANGED <<lock, reads, stopping, getter, got, otherVars>>

\* stop(), lines 27-28
StreamStop ==
    /\ stopping = "idle"
    /\ stream' = [stream EXCEPT !.is_running = FALSE]
    /\ stopping' = IF stream.thread = 0 THEN "release" ELSE "join"
    /\ UNCHANGED <<loops, lock, reads, getter, got, otherVars>>

\* stop(), line 29: the thread has ended
StreamJoined ==
    /\ stopping = "join"
    /\ ~Running(stream.thread)
    /\ stopping' = "release"
    /\ UNCHANGED <<stream, loops, lock, reads, getter, got, otherVars>>

\* stop(), line 29: the 5 s are over and the thread has not ended
StreamJoinTimeout ==
    /\ stopping = "join"
    /\ Running(stream.thread)
    /\ stopping' = "release"
    /\ UNCHANGED <<stream, loops, lock, reads, getter, got, otherVars>>

\* stop(), lines 30-32
StreamRelease ==
    /\ stopping = "release"
    /\ stream' = [stream EXCEPT !.cap = "none"]
    /\ stopping' = "idle"
    /\ UNCHANGED <<loops, lock, reads, getter, got, otherVars>>

\* _capture_frames, line 54 and the first operand of line 55 (not self.cap)
LoopHead(i) ==
    /\ loops[i].pc = "head"
    /\ LoopStep(i, IF ~stream.is_running THEN "ended"
                   ELSE IF stream.cap = "none" THEN "connect"
                   ELSE "opened", 0)
    /\ UNCHANGED <<stream, lock, reads>>

\* _capture_frames, the second operand of line 55 (self.cap.isOpened()): cap
\* is read again, outside the try; when it has become None meanwhile the
\* AttributeError ends the thread
LoopOpened(i) ==
    /\ loops[i].pc = "opened"
    /\ LoopStep(i, IF stream.cap = "none" THEN "ended"
                   ELSE IF stream.cap = "closed" THEN "connect"
                   ELSE "read", 0)
    /\ UNCHANGED <<stream, lock, reads>>

\* _capture_frames, lines 56-58, and _connect
LoopConnect(i) ==
    /\ loops[i].pc = "connect"
    /\ \E opened \in BOOLEAN :
          /\ stream' = [stream EXCEPT !.cap = IF opened THEN "open" ELSE "closed"]
          /\ LoopStep(i, IF opened THEN "read" ELSE "sleep", 0)
    /\ UNCHANGED <<lock, reads>>

\* _capture_frames, lines 61-62: cap.read() returns a frame
LoopReadOk(i) ==
    /\ loops[i].pc = "read"
    /\ stream.cap = "open"
    /\ reads < MaxReads
    /\ reads' = reads + 1
    /\ LoopStep(i, "lock", reads + 1)
    /\ UNCHANGED <<stream, lock>>

\* lines 65-69 and 71-74: what a failed read does to the stream
read_failed(s) == [s EXCEPT !.cap = "none"]

\* _capture_frames, lines 65-74: cap.read() returns no frame, or raises (also
\* when stop() has released the capture meanwhile)
LoopReadFailed(i) ==
    /\ loops[i].pc = "read"
    /\ stream' = read_failed(stream)
    /\ LoopStep(i, "sleep", 0)
    /\ UNCHANGED <<lock, reads>>

\* _capture_frames, line 63: the lock is acquired
LoopLock(i) ==
    /\ loops[i].pc = "lock"
    /\ lock = "free"
    /\ lock' = "loop"
    /\ LoopStep(i, "assign", loops[i].frame)
    /\ UNCHANGED <<stream, reads>>

\* _capture_frames, line 64: the frame is cached and the lock released
LoopAssign(i) ==
    /\ loops[i].pc = "assign"
    /\ stream' = [stream EXCEPT !.current_frame = Some(loops[i].frame)]
    /\ lock' = "free"
    /\ LoopStep(i, "head", 0)
    /\ UNCHANGED reads

\* time.sleep(self.reconnect_delay) is over
LoopWake(i) ==
    /\ loops[i].pc = "sleep"
    /\ LoopStep(i, "head", 0)
    /\ UNCHANGED <<stream, lock, reads>>

\* get_frame() is called
GetFrameCall ==
    /\ getter = "idle"
    /\ getter' = "wait"
    /\ UNCHANGED <<stream, loops, lock, reads, stopping, got, otherVars>>

\* get_frame(), line 77: the lock is acquired
GetFrameLock ==
    /\ getter = "wait"
    /\ lock = "free"
    /\ lock' = "getter"
    /\ getter' = "copy"
    /\ UNCHANGED <<stream, loops, reads, stopping, got, otherVars>>

\* get_frame(), line 78: the copy is returned and the lock released
GetFrameCopy ==
    /\ getter = "copy"
    /\ got' = stream.current_frame
    /\ lock' = "free"
    /\ getter' = "idle"
    /\ UNCHANGED <<stream, loops, reads, stopping, otherVars>>

NextStream ==
    \/ StreamStart
    \/ StreamStop
    \/ StreamJoined
    \/ StreamJoinTimeout
    \/ StreamRelease
    \/ \E i \in LoopIds : LoopHead(i)
    \/ \E i \in LoopIds : LoopOpened(i)
    \/ \E i \in LoopIds : LoopConnect(i)
    \/ \E i \in LoopIds : LoopReadOk(i)
    \/ \E i \in LoopIds : LoopReadFailed(i)
    \/ \E i \in LoopIds : LoopLock(i)
    \/ \E i \in LoopIds : LoopAssign(i)
    \/ \E i \in LoopIds : LoopWake(i)
    \/ GetFrameCall
    \/ GetFrameLock
    \/ GetFrameCopy

SpecStream == InitStream /\ [][NextStream]_vars

(***************************************************************************)
(* Properties.                                                             *)
(***************************************************************************)
Known(d) == d \in DOMAIN devices

\* The pair (old, new) is in the transition table.
InTable(old, new) == old \in DOMAIN VALID_TRANSITIONS /\ new \in VALID_TRANSITIONS[old]

\* A step that is one update_state call: its device, its label, its timestamp
\* and the device record it found (created by the call if it was missing).
IsCall == UpdateState(call'.device_id, call'.detected_state, now')
Dev == call'.device_id
Label == call'.detected_state
Stamp == now'
Before == Lookup(call'.device_id)
After == devices'[call'.device_id]

\* C1: an update_state call whose label differs from current_state and whose
\* pair (current_state, label) is not in the transition table -- labels
\* outside the five states included -- returns no event and leaves the whole
\* device record (state, session fields, last_update, history, pending
\* confirmation) as it was.
C1_InvalidTransitionClosure ==
    [][(/\ IsCall
        /\ Label # Before.current_state
        /\ ~InTable(Before.current_state, Label))
       => (ret' = NoEvent /\ After = Before)]_vars

\* A rejected unknown label arrived while a session was active and three idle
\* observations were pending.
C1_Witness ==
    /\ Known("d1")
    /\ msgs = <<"rejected">>
    /\ call.detected_state = "Class_7"
    /\ devices["d1"].session_id # None
    /\ devices["d1"].pending_count = 3

\* C2: from state scan with an active session and no pending confirmation,
\* the first four consecutive idle observations leave current_state = scan
\* and return no event; the fifth, at most 3 after the first, commits idle
\* and returns session_end with end_type abandoned and total_scans equal to
\* the session's scan_count.  When the events before were exactly
\* session_start and product_scan #1, the events are then exactly
\* session_start, product_scan #1, session_end(abandoned, total_scans 1).
C2_DebounceThreshold ==
    [][(/\ IsCall
        /\ Label = "idle"
        /\ Before.current_state = "scan"
        /\ Before.session_id # None
        /\ streak'[Dev].clean)
       => /\ streak'[Dev].n \in 1..4
                => (ret' = NoEvent /\ After.current_state = "scan")
          /\ (streak'[Dev].n = 5 /\ Stamp - streak'[Dev].first <= 3)
                => /\ After.current_state = "idle"
                   /\ ret'.event_type = "session_end"
                   /\ ret'.details.end_type = "abandoned"
                   /\ ret'.details.total_scans = Before.scan_count
                   /\ (/\ Len(log) = 2
                       /\ log[1].event_type = "session_start"
                       /\ log[2].event_type = "product_scan")
                      => /\ log[2].details.scan_number = 1
                         /\ log' = Append(log,
                               [event_type |-> "session_end",
                                device_id  |-> Dev,
                                details    |->
                                   [session_id  |-> log[1].details.session_id,
                                    end_type    |-> "abandoned",
                                    total_scans |-> 1]])]_vars

\* The fifth idle observation of a run that began in scan with nothing
\* pending has just ended the session as abandoned, after one scan.
C2_Witness ==
    /\ Known("d1")
    /\ streak["d1"].label = "idle"
    /\ streak["d1"].n = 5
    /\ streak["d1"].clean
    /\ devices["d1"].current_state = "idle"
    /\ ret.event_type = "session_end"
    /\ ret.old_state = "scan"
    /\ Len(log) = 3
    /\ log[3].details.end_type = "abandoned"
    /\ log[3].details.total_scans = 1

\* C3: when the idle observation that brings the pending count to 5 comes
\* more than 3 after the first pending timestamp, nothing is committed (state
\* and session fields unchanged, no event) and the pending confirmation is
\* left as candidate idle, count 1, with that observation's timestamp alone.
C3_WindowReset ==
    [][(/\ IsCall
        /\ Label = "idle"
        /\ Before.pending_state = Some("idle")
        /\ Before.pending_count = 4
        /\ Stamp - Before.pending_timestamps[1] > 3)
       => /\ ret' = NoEvent
          /\ After = [Before EXCEPT !.pending_state = Some("idle"),
                                    !.pending_count = 1,
                                    !.pending_timestamps = <<Stamp>>]]_vars

\* A fifth idle observation has just come too late and restarted the count.
C3_Witness ==
    /\ Known("d1")
    /\ msgs = <<"confirmation_timeout">>
    /\ call.detected_state = "idle"
    /\ devices["d1"].current_state = "scan"
    /\ devices["d1"].session_id # None
    /\ devices["d1"].pending_count = 1
    /\ devices["d1"].pending_timestamps = <<now>>

\* The events the full lifecycle returns, for the session id of its first.
ExpectedLifecycle(sid) ==
    << [event_type |-> "session_start", device_id |-> "d1",
        details |-> [session_id |-> sid]],
       [event_type |-> "product_scan", device_id |-> "d1",
        details |-> [scan_number |-> 1, session_id |-> sid]],
       [event_type |-> "view_list", device_id |-> "d1", details |-> NoDetails],
       [event_type |-> "product_scan", device_id |-> "d1",
        details |-> [scan_number |-> 2, session_id |-> sid]],
       [event_type |-> "session_end", device_id |-> "d1",
        details |-> [session_id |-> sid, end_type |-> "completed",
                     total_scans |-> 2]] >>

\* C4: a fresh device fed start, scan, list, scan, over, idle (one observation
\* each, increasing timestamps) returns exactly session_start, product_scan
\* #1, view_list, product_scan #2, session_end(completed, total_scans 2), and
\* then no event for over -> idle, which commits on that single observation.
C4_FullLifecycle ==
    script = Lifecycle =>
        /\ pc = 0 => log = <<>>
        /\ pc >= 1 =>
              /\ Len(log) = Min(pc, 5)
              /\ log = SubSeq(ExpectedLifecycle(log[1].details.session_id), 1, Min(pc, 5))
              /\ log[1].details.session_id # None
              /\ devices["d1"].current_state = script[pc]
        /\ pc \in 1..5 => LogEntry(ret) = log[pc]
        /\ pc = 6 => /\ ret = NoEvent
                     /\ devices["d1"].pending_state = None
                     /\ devices["d1"].last_update = Some(now)

\* The whole lifecycle has been fed: five events, then the silent over -> idle.
C4_Witness ==
    /\ script = Lifecycle
    /\ pc = 6
    /\ Len(log) = 5
    /\ ret = NoEvent
    /\ devices["d1"].current_state = "idle"

\* C5: a run of consecutive update_state calls for one device that all carry
\* the same label (timestamps non-decreasing) returns at most one event; once
\* a call of the run has changed current_state, every later call of the run
\* returns no event and leaves current_state unchanged.
C5_Idempotence ==
    [][IsCall
       => /\ streak'[Dev].events <= 1
          /\ (streak[Dev].label = Label /\ streak[Dev].changed)
                => (ret' = NoEvent /\ After.current_state = Before.current_state)]_vars

\* A run of idle observations committed at its fifth call, returned one event,
\* and has gone on with a sixth call.
C5_Witness ==
    /\ Known("d1")
    /\ streak["d1"].label = "idle"
    /\ streak["d1"].n = 6
    /\ streak["d1"].changed
    /\ streak["d1"].events = 1
    /\ ret = NoEvent

\* The session events of a device, oldest first.
SessionEvents(d) ==
    SelectSeq(log, LAMBDA e : e.device_id = d
                              /\ e.event_type \in {"session_start", "session_end"})

\* C6: for every device the session events are exactly-once: session_start
\* and session_end alternate, beginning with session_start; each session_end
\* carries the session_id of the session_start right before it; no session_id
\* is in more than one session_start or in more than one session_end.
C6_ExactlyOnceSessions ==
    /\ \A d \in DeviceIds :
          LET se == SessionEvents(d)
          IN  \A i \in 1..Len(se) :
                 IF i % 2 = 1
                 THEN /\ se[i].event_type = "session_start"
                      /\ se[i].details.session_id # None
                 ELSE /\ se[i].event_type = "session_end"
                      /\ se[i].details.session_id = se[i - 1].details.session_id
    /\ \A i, j \in 1..Len(log) :
          (/\ i # j
           /\ log[i].event_type \in {"session_start", "session_end"}
           /\ log[i].event_type = log[j].event_type)
          => log[i].details.session_id # log[j].details.session_id

\* Two whole sessions of one device have started and ended.
C6_Witness ==
    /\ Len(SessionEvents("d1")) = 4
    /\ ret.event_type = "session_end"

\* C7: after every update_state call, for every device, session_id is present
\* exactly when current_state is start, scan or list (absent in idle and in
\* over); a session-ending transition always finds a session_id, so the
\* warning for an end without a session is never logged.
C7_SessionIdIffActive ==
    /\ \A d \in DOMAIN devices :
          (devices[d].session_id # None)
             <=> (devices[d].current_state \in {"start", "scan", "list"})
    /\ \A i \in 1..Len(msgs) : msgs[i] # "end_without_session"

\* A session has just been ended by scan/list -> over.
C7_Witness ==
    /\ Known("d1")
    /\ devices["d1"].current_state = "over"
    /\ devices["d1"].session_id = None
    /\ ret.event_type = "session_end"
    /\ ret.details.session_id # None

\* C8: every device's current_state is one of idle, start, scan, list, over,
\* whatever labels update_state is given.
C8_StateInDomain ==
    \A d \in DOMAIN devices :
        devices[d].current_state \in {"idle", "start", "scan", "list", "over"}

\* A label that is none of the five states has just been given and rejected.
C8_Witness ==
    /\ Known("d1")
    /\ call.detected_state = "Class_7"
    /\ msgs = <<"rejected">>
    /\ devices["d1"].current_state = "list"

\* The events of a device, oldest first, and counts over them.
EventsOf(d) == SelectSeq(log, LAMBDA e : e.device_id = d)

\* The last index at most i of an event of one of the types, 0 if there is none.
LastOf(evs, types, i) ==
    LET at == {k \in 1..i : evs[k].event_type \in types}
    IN  IF at = {} THEN 0 ELSE CHOOSE k \in at : \A m \in at : m <= k

ScansIn(evs, from, to) ==
    Cardinality({k \in from..to : evs[k].event_type = "product_scan"})

\* C9: scan_count is 0 right after every session_start and session_end and
\* otherwise grows by one with each product_scan: it is the number of
\* product_scan events since the last session_start or session_end; each
\* product_scan's scan_number is the number of product_scan events since its
\* session's session_start, and a session_end's total_scans is the number of
\* product_scan events of its session.
C9_ScanCount ==
    \A d \in DOMAIN devices :
        LET evs == EventsOf(d)
            n == Len(evs)
        IN  /\ devices[d].scan_count =
                   ScansIn(evs, LastOf(evs, {"session_start", "session_end"}, n) + 1, n)
            /\ \A i \in 1..n :
                  /\ evs[i].event_type = "product_scan"
                        => evs[i].details.scan_number =
                              ScansIn(evs, LastOf(evs, {"session_start"}, i) + 1, i)
                  /\ evs[i].event_type = "session_end"
                        => evs[i].details.total_scans =
                              ScansIn(evs, LastOf(evs, {"session_start"}, i) + 1, i)

\* A session with one scan has ended and a second session has scanned once.
C9_Witness ==
    /\ Known("d1")
    /\ Len(log) = 5
    /\ log[3].event_type = "session_end"
    /\ log[3].details.total_scans = 1
    /\ log[5].event_type = "product_scan"
    /\ log[5].details.scan_number = 1
    /\ devices["d1"].scan_count = 1

\* C10: a device's state history never holds more than 1000 entries; when an
\* append makes it exceed 1000, it is replaced by its 500 most recent entries
\* in their original order.
C10_HistoryBounded ==
    [][IsCall
       => /\ Len(Before.state_history) <= 1000
          /\ Len(After.state_history) <= 1000
          /\ (/\ After.current_state # Before.current_state
              /\ ret'.event_type # "session_end"
              /\ Len(Before.state_history) = 1000)
             => After.state_history =
                   SubSeq(Before.state_history \o << <<Stamp, Label>> >>, 502, 1001)]_vars

\* The 1001st append of a session has just cut the history to entries 502..1001.
C10_Witness ==
    /\ Known("d1")
    /\ now = 1001
    /\ Len(devices["d1"].state_history) = 500
    /\ devices["d1"].state_history[1][1] = 502
    /\ devices["d1"].state_history[500] = <<1001, devices["d1"].current_state>>

\* The signals of the notifier calls of the most recent update_state call.
SentSignals == [i \in 1..Len(sent) |-> sent[i].signal]

ExpectedSignals(event) ==
    CASE event.event_type = "session_start" -> <<"101">>
      [] event.event_type = "product_scan"  -> <<"102", "dismiss">>
      [] event.event_type = "session_end"   -> <<"106">>
      [] OTHER -> <<>>

\* C13: with a notifier configured, the notifier calls of an update_state call
\* are determined by the event it returns: session_start sends one 101;
\* product_scan sends one 102 and then one dismiss, whatever the 102 call
\* returned; session_end sends one 106 for completed and abandoned alike;
\* view_list, the over -> idle commit and every update that returns no event
\* send nothing.
C13_NotificationsByEvent ==
    [][notifier => SentSignals' = ExpectedSignals(ret')]_vars

\* A product_scan whose 102 call failed and whose dismiss was sent all the same.
C13_Witness ==
    /\ notifier
    /\ ret.event_type = "product_scan"
    /\ Len(sent) = 2
    /\ sent[1].signal = "102" /\ ~sent[1].returned
    /\ sent[2].signal = "dismiss"

\* C14: what happens to the notifications of an update_state call has no
\* influence on the state machine: the device record after the call and the
\* returned event are those update_state computes without looking at any
\* notification, for every combination of success, missing configuration,
\* timeout, connection error and failure status; and every notifier call
\* returns a boolean, no exception leaves it.
C14_OutcomeIndependence ==
    [][LET r == update_state(Before, Label, Stamp, nextSid)
       IN  /\ After = r.device
           /\ ret' = r.event
           /\ \A i \in 1..Len(sent') :
                 sent'[i].returned \in BOOLEAN /\ ~sent'[i].raised]_vars

\* A session ended and reset although its 106 call timed out.
C14_Witness ==
    /\ Known("d1")
    /\ ret.event_type = "session_end"
    /\ devices["d1"].session_id = None
    /\ Len(sent) = 1
    /\ sent[1].signal = "106" /\ sent[1].outcome = "timeout" /\ ~sent[1].returned

\* A step in which the dispatcher takes a result from the output queue.
DispatcherTakes ==
    /\ dispatcher = "poll"
    /\ output_queue # <<>>
    /\ output_queue' = Tail(output_queue)

\* C11: no update_state call for a device carries a timestamp smaller than
\* the timestamp of an earlier update_state call for that device, with two
\* workers pulling the tasks of the device.
C11_TimestampOrder ==
    [][(DispatcherTakes /\ logged' # None /\ call'.device_id = call.device_id)
           => now' >= now]_vars

\* The timestamps of the tasks waiting in the input queue.
QueuedStamps ==
    {input_queue[i][1].timestamp : i \in {j \in 1..Len(input_queue) : input_queue[j] # None}}

\* C12: the input queue never holds more than 2 * detector_count items; a put
\* of the sampler always ends (it is never blocked whatever the workers do);
\* when it ends on a full queue the task is given up, the queue is left as it
\* is, the sampler is back in its loop, and a task given up is never queued
\* later.
C12_Backpressure ==
    [][/\ Len(input_queue') <= Capacity
       /\ QueuedStamps' \cap dropped' = {}
       /\ (sampler = "put" => ENABLED SamplerPut)
       /\ (sampler = "put" /\ sampler' # "put") =>
             /\ sampler' = "loop"
             /\ IF Len(input_queue) = Capacity
                THEN input_queue' = input_queue /\ dropped' = dropped \cup {clock}
                ELSE /\ input_queue' = Append(input_queue, Some(Task("d1", clock)))
                     /\ dropped' = dropped]_vars

\* A task was given up on a full queue and the sampler has since made and
\* submitted a later one.
C12_Witness ==
    /\ sampler = "loop"
    /\ \E t \in dropped : clock > t

\* C15: the dispatcher hands a result to update_state exactly when its
\* confidence is at least the threshold, and then logs it; a result below the
\* threshold leaves every device record, the manager and the log as they
\* are.
C15_ThresholdGate ==
    [][DispatcherTakes =>
          LET results == Head(output_queue)
              r == update_state(Lookup(results.device_id), results.class,
                                results.timestamp, nextSid)
          IN  IF results.confidence >= CONFIDENCE_THRESHOLD
              THEN /\ call' = [device_id |-> results.device_id,
                               detected_state |-> results.class]
                   /\ now' = results.timestamp
                   /\ devices'[results.device_id] = r.device
                   /\ ret' = r.event
                   /\ logged' = Some(results)
              ELSE /\ UNCHANGED <<devices, nextSid, now, call, msgs, ret, log, sent>>
                   /\ logged' = None]_vars

\* The one task sampled so far was classified, not failed, and is gone from
\* both queues, yet no device record exists: its result was below the
\* threshold and was discarded.
C15_Witness ==
    /\ clock = 1
    /\ sampler = "loop"
    /\ input_queue = <<>>
    /\ output_queue = <<>>
    /\ \A w \in WorkerIds : workers[w].status = "waiting"
    /\ failures = {}
    /\ dispatcher = "check"
    /\ logged = None
    /\ devices = <<>>

\* C16: when a worker is done with a task, by publishing its result or by an
\* exception, it is waiting for the next task; a task that raises publishes
\* nothing; no such step changes the set of live workers or any other worker.
C16_FailureContained ==
    [][\A w \in WorkerIds :
          (workers[w].status = "busy" /\ workers'[w].status # "busy" /\ stopper' = stopper)
          => /\ workers'[w].status = "waiting"
             /\ LiveWorkers' = LiveWorkers
             /\ \A v \in WorkerIds \ {w} : workers'[v] = workers[v]
             /\ input_queue' = input_queue
             /\ (failures' # failures => output_queue' = output_queue)]_vars

\* A worker in which a task raised holds a later task, and every worker is
\* alive.
C16_Witness ==
    /\ LiveWorkers = WorkerIds
    /\ \E w \in failures : workers[w].status = "busy"

\* C17: pool shutdown always terminates, also with dead workers and a full
\* input queue: _stop_detector_pool is never waiting to enqueue a sentinel
\* on a full queue that no worker is left to take from.
C17_ShutdownNotBlocked ==
    ~(/\ stopper.pc = "signal"
      /\ Len(input_queue) = Capacity
      /\ LiveWorkers = {})

\* C18: the dispatcher drains the output queue until the pool has stopped:
\* when stop_monitoring has returned and the dispatcher has left its loop,
\* no result at or above the threshold is left in the output queue.
C18_DrainedAtStop ==
    (stopper.pc = "done" /\ dispatcher = "exited")
        => \A i \in 1..Len(output_queue) :
               output_queue[i].confidence < CONFIDENCE_THRESHOLD

\* C19: for any sequence of start() and stop() calls on one stream, at most
\* one acquisition loop is running at any time.
C19_SingleLoop == Cardinality({i \in LoopIds : Running(i)}) <= 1

\* The frames of the successful reads whose caching is complete: all but
\* those a loop holds between its read and its assignment.
CachedReads ==
    {f \in 1..reads :
        \A i \in LoopIds : ~(loops[i].pc \in {"lock", "assign"} /\ loops[i].frame = f)}

Latest(S) == CHOOSE f \in S : \A g \in S : g <= f

\* C20: get_frame() returns nothing exactly when no read has succeeded, and
\* otherwise the frame of the most recent successful read, whatever is_running
\* and cap are; the lock is held only by a loop at its assignment or by
\* get_frame at its copy, never by a loop that connects, reads or sleeps.
C20_LatestFrame ==
    [][/\ (getter = "copy" /\ getter' = "idle") =>
             got' = IF CachedReads = {} THEN None ELSE Some(Latest(CachedReads))
       /\ (lock' = "loop") =>
             /\ Cardinality({i \in LoopIds : loops'[i].pc = "assign"}) = 1
             /\ getter' # "copy"
       /\ (lock' = "getter") =>
             /\ getter' = "copy"
             /\ \A i \in LoopIds : loops'[i].pc # "assign"
       /\ (lock' = "free") =>
             /\ getter' # "copy"
             /\ \A i \in LoopIds : loops'[i].pc # "assign"]_vars

\* C21: while the stream has not been stopped, the acquisition loop of its
\* latest start() never ends: it ends only when stop() has cleared the
\* running flag; a failed connect or a failed
\* read leaves the loop in its back-off sleep with no open connection, and the
\* sleep ends at the head of the loop, from where it connects again.
C21_LoopNeverExits ==
    [][\A i \in LoopIds :
          /\ (i = stream.thread /\ loops[i].pc # "ended"
                /\ loops'[i].pc = "ended")
                => ~stream.is_running
          /\ (loops[i].pc \in {"connect", "read"}
                /\ loops'[i].pc \notin {"connect", "read", "lock"})
                => (loops'[i].pc = "sleep" /\ stream'.cap # "open")
          /\ (loops[i].pc = "sleep" /\ loops'[i].pc # "sleep")
                => loops'[i].pc = "head"]_vars

\* C22: once stop() has returned and until start() is called again, the
\* stream holds no open connection, also when the join timed out.
C22_ReleasedAfterStop ==
    (stopping = "idle" /\ ~stream.is_running) => stream.cap # "open"

(***************************************************************************)
(* The dispatcher feeding the two devices of the registry any label, until *)
(* MaxFleetEvents events have been returned.                               *)
(***************************************************************************)
ObserveFleet ==
    \E d \in DeviceIds, L \in Labels, t \in now..MaxFleetTime :
        /\ UpdateState(d, L, t)
        /\ Len(log') <= MaxFleetEvents
        /\ UNCHANGED <<streak, watch, result_threads, script, pc, notifyVars, poolVars, streamVars>>

NextFleet == ObserveFleet

SpecFleet == Init /\ [][NextFleet]_vars

\* C23: the first update_state call naming a device adds its record to the
\* registry, created in state idle with no session and no pending
\* confirmation (and left so when that first observation is rejected); no
\* call removes a record, and a call for one device leaves the record of
\* every other device as it was.
C23_RegistryIsolation ==
    [][IsCall =>
         /\ DOMAIN devices' = DOMAIN devices \cup {Dev}
         /\ \A B \in DOMAIN devices \ {Dev} : devices'[B] = devices[B]
         /\ ~Known(Dev) =>
               /\ msgs'[1] = "init"
               /\ After.id = Dev
               /\ After.pending_state = None
               /\ After.pending_count = 0
               /\ After.pending_timestamps = <<>>
               /\ IF Label = "start"
                  THEN /\ After.current_state = "start"
                       /\ ret'.event_type = "session_start"
                       /\ ret'.old_state = "idle"
                  ELSE /\ After.current_state = "idle"
                       /\ After.session_id = None
                       /\ After.session_start = None
                       /\ After.scan_count = 0
                       /\ After.state_history = <<>>
                       /\ ret' = NoEvent]_vars

\* The second device was created by an observation that was rejected, while
\* the first device was scanning in a session.
C23_Witness ==
    /\ Known("d1")
    /\ Known("d2")
    /\ devices["d1"].current_state = "scan"
    /\ devices["d1"].session_id # None
    /\ call.device_id = "d2"
    /\ msgs = <<"init", "rejected">>
    /\ devices["d2"] = DeviceState("d2")

\* C24: after every update_state call that changes current_state,
\* last_update is the timestamp of the call and the most recent history
\* entry is (that timestamp, the new state), session_end commits included.
C24_CommitStamped ==
    [][(IsCall /\ After.current_state # Before.current_state)
       => /\ After.last_update = Some(Stamp)
          /\ After.state_history # <<>>
          /\ After.state_history[Len(After.state_history)]
                = <<Stamp, After.current_state>>]_vars

\* The call before this step was for the same device and was rejected.
AfterRejected == call.device_id = Dev /\ msgs \in {<<"rejected">>, <<"init", "rejected">>}

\* The call before this step was for the same device and carried the state
\* the device is in.
AfterCurrent == call.device_id = Dev /\ call.detected_state = Before.current_state

\* C25: an update_state call whose label equals current_state returns no
\* event, empties the pending confirmation and changes nothing else, so an
\* idle observation that follows an observation of the current state starts
\* a confirmation at count 1; a rejected observation leaves the pending
\* confirmation as it was, so the idle observation that follows it counts on
\* from where the confirmation stood.
C25_SameStateClears ==
    [][IsCall =>
         /\ (Label = Before.current_state) =>
               /\ ret' = NoEvent
               /\ After = [Before EXCEPT !.pending_state = None,
                                         !.pending_count = 0,
                                         !.pending_timestamps = <<>>]
         /\ (Label = "idle" /\ Before.current_state \in {"start", "scan", "list"}) =>
               /\ AfterCurrent =>
                     /\ After.pending_count = 1
                     /\ After.pending_timestamps = <<Stamp>>
                     /\ After.current_state = Before.current_state
               /\ (AfterRejected /\ Before.pending_count \in 1..3) =>
                     /\ After.pending_count = Before.pending_count + 1
                     /\ After.pending_timestamps
                           = Append(Before.pending_timestamps, Stamp)
                     /\ After.current_state = Before.current_state]_vars

\* An observation of the current state arrived while a confirmation was
\* pending, and the confirmation is gone.
C25_Witness ==
    /\ Known("d1")
    /\ devices["d1"].current_state = "scan"
    /\ call.detected_state = "scan"
    /\ ret = NoEvent
    /\ watch.emptied
    /\ devices["d1"].pending_state = None
    /\ devices["d1"].pending_count = 0

\* The pending confirmation of a device record is well-formed.
WellFormedPending(device) ==
    /\ device.pending_state \in {None, Some("idle")}
    /\ device.pending_count = Len(device.pending_timestamps)
    /\ (device.pending_count = 0) <=> (device.pending_state = None)
    /\ device.pending_state # None =>
          /\ device.pending_count \in 1..4
          /\ device.current_state \in {"start", "scan", "list"}

\* C26: after every update_state call the pending confirmation of each
\* device is well-formed: the candidate is none or idle, the count is the
\* number of stored timestamps, 0 exactly when there is no candidate and
\* 1..4 otherwise, a candidate exists only in start, scan or list, and none
\* exists after a call that changed current_state.
C26_PendingWellFormed ==
    [][IsCall =>
         /\ \A d \in DOMAIN devices' : WellFormedPending(devices'[d])
         /\ (After.current_state # Before.current_state)
               => After.pending_state = None]_vars

\* Four idle observations are pending in a session.
C26_Witness ==
    /\ Known("d1")
    /\ devices["d1"].current_state = "list"
    /\ devices["d1"].pending_state = Some("idle")
    /\ devices["d1"].pending_count = 4
    /\ Len(devices["d1"].pending_timestamps) = 4

(***************************************************************************)
(* The dispatcher feeding one device any label, with the recent idle       *)
(* observations remembered, until MaxDebounceEvents events have been       *)
(* returned.                                                               *)
(***************************************************************************)
UpdateStateWatch(device_id, detected_state, timestamp) ==
    /\ UpdateState(device_id, detected_state, timestamp)
    /\ watch' = NextWatch(watch, Lookup(device_id), devices'[device_id], ret',
                          msgs', detected_state, timestamp)

ObserveWatch ==
    \E L \in Labels, t \in now..MaxDebounceTime :
        /\ UpdateStateWatch("d1", L, t)
        /\ Len(log') <= MaxDebounceEvents
        /\ UNCHANGED <<streak, result_threads, script, pc, notifyVars, poolVars, streamVars>>

NextDebounce == ObserveWatch

SpecDebounce == Init /\ [][NextDebounce]_vars

InSession == {"start", "scan", "list"}

\* C27: whenever current_state changes from start, scan or list to idle, the
\* committing call carries idle and is the fifth of five idle observations
\* with no observation of the current state and no committed transition
\* between them, the fifth at most 3 after the first; fewer never commit.
C27_DebounceSound ==
    [][(/\ IsCall
        /\ Before.current_state \in InSession
        /\ After.current_state = "idle")
       => /\ Label = "idle"
          /\ Len(watch.since) = 4
          /\ Stamp - watch.since[1] <= 3]_vars

\* A session has just been abandoned on an idle observation that is only
\* the second of its run: rejected observations lie between the five.
C27_Witness ==
    /\ Known("d1")
    /\ devices["d1"].current_state = "idle"
    /\ ret.event_type = "session_end"
    /\ watch.ended
    /\ watch.n = 2

\* The latest five observations of the device were consecutive idle
\* observations, the first received in start, scan or list, the fifth at
\* most 3 after the first.
FiveInWindow ==
    /\ Len(watch.last) = 5
    /\ watch.last[1].state \in InSession
    /\ watch.last[5].t - watch.last[1].t <= 3

\* C28: whenever a device in start, scan or list receives five consecutive
\* idle observations whose first-to-last span is at most 3, current_state is
\* idle after the fifth, whatever idle observations and pending confirmation
\* preceded the five.
C28_DebounceComplete ==
    FiveInWindow => devices["d1"].current_state = "idle"

\* C28 as amended: the same, unless the confirmation pending before the five
\* timed out and restarted at the second, third or fourth of them.
C28_CompleteUnlessRestarted ==
    (/\ FiveInWindow
     /\ ~watch.last[2].timeout
     /\ ~watch.last[3].timeout
     /\ ~watch.last[4].timeout)
    => devices["d1"].current_state = "idle"

\* Four old idle observations were pending before the five: the first of the
\* five restarted the count and the fifth has just ended the session.
C28_Witness ==
    /\ FiveInWindow
    /\ watch.last[1].timeout
    /\ watch.last[5].state \in InSession
    /\ devices["d1"].current_state = "idle"
    /\ ret.event_type = "session_end"

\* The current run of consecutive idle observations began in start, scan or
\* list and has at least k observations.
IdleStream(k) == watch.from \in InSession /\ watch.n >= k

\* In a stream of idle observations in which any five consecutive ones span
\* at most 3, the session is abandoned by the eighth observation at the
\* latest, whatever was pending before the stream.
BoundedResponse ==
    (IdleStream(8) /\ watch.tight)
    => (watch.ended /\ devices["d1"].current_state = "idle")

\* C29: from any state in start, scan or list, with any pending
\* confirmation, a stream of idle observations in which any five consecutive
\* ones span at most 3 commits to idle and returns session_end(abandoned)
\* within at most 8 observations; a stream in which every five consecutive
\* idle observations span more than 3 never commits.
C29_BoundedResponse ==
    /\ BoundedResponse
    /\ (IdleStream(5) /\ watch.loose) => ~watch.ended

\* C29 as amended: the second half holds of the streams that begin with no
\* confirmation pending.
C29_BoundedResponseFromClean ==
    /\ BoundedResponse
    /\ (IdleStream(1) /\ watch.loose /\ watch.clean)
         => (~watch.ended /\ devices["d1"].current_state = watch.from)

\* The session has just been abandoned on the eighth observation of a stream
\* that met a pending confirmation.
C29_Witness ==
    /\ IdleStream(8)
    /\ watch.n = 8
    /\ watch.tight
    /\ ~watch.clean
    /\ ret.event_type = "session_end"
    /\ devices["d1"].current_state = "idle"

\* A stream of five idle observations spanning more than 3 that began with
\* nothing pending has restarted the count.
C29_WitnessLoose ==
    /\ IdleStream(5)
    /\ watch.loose
    /\ watch.clean
    /\ msgs = <<"confirmation_timeout">>

\* C30: every update_state call that changes current_state returns
\* session_start, product_scan, view_list or session_end, or no event for
\* over -> idle; state_change is never returned, session_start only for
\* idle -> start (start observed in list is rejected), and the guard for a
\* session end without an active session is never taken.
C30_EventTypes ==
    [][IsCall =>
         /\ ret'.event_type \in {"none", "session_start", "product_scan",
                                  "view_list", "session_end"}
         /\ (After.current_state # Before.current_state) =>
               ((ret' = NoEvent)
                  <=> (Before.current_state = "over" /\ After.current_state = "idle"))
         /\ (ret'.event_type = "session_start") =>
               (Before.current_state = "idle" /\ After.current_state = "start")
         /\ (Before.current_state = "list" /\ Label = "start") =>
               (ret' = NoEvent /\ After = Before)
         /\ \A i \in 1..Len(msgs') :
               msgs'[i] \notin {"state_change", "end_without_session"}]_vars

\* A completed session has been followed by over -> idle, committed on one
\* observation without an event.
C30_Witness ==
    /\ Known("d1")
    /\ call.detected_state = "idle"
    /\ ret = NoEvent
    /\ devices["d1"].current_state = "idle"
    /\ devices["d1"].state_history = << <<now, "idle">> >>
    /\ Len(log) >= 2
    /\ log[Len(log)].event_type = "session_end"
    /\ log[Len(log)].details.end_type = "completed"

(***************************************************************************)
(* The pipeline across start_monitoring and stop_monitoring calls.  Every  *)
(* _start_detector_pool creates a thread running _process_results;         *)
(* result_threads[i] is where the i-th of them is: "check" (line 145),     *)
(* "poll" (line 147), "update" (inside update_state, lines 153-158, the    *)
(* inline notification included) or "exited".  The effect of update_state  *)
(* is taken at its return.  result_thread.join(timeout=2) ends when the    *)
(* thread has ended, or after 2 s while the thread is inside update_state  *)
(* (a notification waits up to 5 s for its answer).                        *)
(***************************************************************************)
Started == {i \in ThreadIds : result_threads[i].pc # "unborn"}

\* self.result_thread: the thread of the latest _start_detector_pool
result_thread == Cardinality(Started)

ThreadStep(i, to, results) ==
    /\ result_threads' = [result_threads EXCEPT ![i] = [pc |-> to, results |-> results]]
    /\ UNCHANGED <<is_running, input_queue, workers, sampler, clock, dropped,
                   failures, dispatcher, stopper>>
    /\ UNCHANGED <<streak, watch, script, pc, streamVars>>

\* start_monitoring and _start_detector_pool, after __init__ or after a
\* stop_monitoring that has returned
MonitorStart ==
    /\ ~is_running
    /\ stopper.pc \in {"idle", "done"}
    /\ sampler \in {"off", "loop"}
    /\ result_thread < MaxThreads
    /\ is_running' = TRUE
    /\ input_queue' = <<>>
    /\ output_queue' = <<>>
    /\ workers' = [w \in WorkerIds |-> [status |-> "init", task |-> None]]
    /\ result_threads' = [result_threads EXCEPT ![result_thread + 1].pc = "check"]
    /\ sampler' = "loop"
    /\ stopper' = [pc |-> "idle", i |-> 0]
    /\ UNCHANGED <<clock, dropped, failures, dispatcher, logged>>
    /\ UNCHANGED <<managerVars, streak, watch, script, pc, notifyVars, streamVars>>

\* _process_results, line 145
ResultCheck(i) ==
    /\ result_threads[i].pc = "check"
    /\ ThreadStep(i, IF is_running THEN "poll" ELSE "exited", None)
    /\ UNCHANGED <<output_queue, logged, managerVars, notifyVars>>

\* _process_results, line 147: the output queue is empty
ResultIdle(i) ==
    /\ result_threads[i].pc = "poll"
    /\ output_queue = <<>>
    /\ ThreadStep(i, "check", None)
    /\ UNCHANGED <<output_queue, logged, managerVars, notifyVars>>

\* _process_results, lines 148-153: a result is taken; update_state is
\* entered when its confidence reaches the threshold
ResultTake(i) ==
    /\ result_threads[i].pc = "poll"
    /\ output_queue # <<>>
    /\ output_queue' = Tail(output_queue)
    /\ IF Accepts(Head(output_queue).confidence)
       THEN /\ ThreadStep(i, "update", Some(Head(output_queue)))
            /\ UNCHANGED logged
       ELSE /\ ThreadStep(i, "check", None)
            /\ logged' = None
    /\ UNCHANGED <<managerVars, notifyVars>>

\* _process_results, lines 153-164: update_state returns, the result is logged
ResultUpdate(i) ==
    /\ result_threads[i].pc = "update"
    /\ LET results == result_threads[i].results[1]
           r == update_state(Lookup(results.device_id), results.class,
                             results.timestamp, nextSid)
       IN  /\ UpdateStateNotify(results.device_id, results.class, results.timestamp,
                                AllSucceed(Len(r.notify)))
           /\ logged' = Some(results)
    /\ ThreadStep(i, "check", None)
    /\ UNCHANGED output_queue

\* _stop_detector_pool, lines 138-141: there is no live result thread, or
\* the join ends because the thread has ended
ResultJoined ==
    /\ stopper.pc = "join_result"
    /\ result_threads[result_thread].pc = "exited"
    /\ stopper' = [pc |-> "done", i |-> 0]
    /\ UNCHANGED <<is_running, input_queue, output_queue, workers, sampler, clock,
                   dropped, failures, dispatcher, logged>>
    /\ UNCHANGED <<managerVars, streak, watch, result_threads, script, pc, notifyVars,
                   streamVars>>

\* _stop_detector_pool, lines 138-141: the 2 s are over and the thread is
\* still inside update_state
ResultJoinTimeout ==
    /\ stopper.pc = "join_result"
    /\ result_threads[result_thread].pc = "update"
    /\ stopper' = [pc |-> "done", i |-> 0]
    /\ UNCHANGED <<is_running, input_queue, output_queue, workers, sampler, clock,
                   dropped, failures, dispatcher, logged>>
    /\ UNCHANGED <<managerVars, streak, watch, result_threads, script, pc, notifyVars,
                   streamVars>>

NextRestart ==
    \/ MonitorStart
    \/ SamplerSample(MaxRestartSamples)
    \/ SamplerPut
    \/ \E w \in WorkerIds : WorkerInit(w)
    \/ \E w \in WorkerIds : WorkerInitFail(w)
    \/ \E w \in WorkerIds : WorkerGet(w)
    \/ \E w \in WorkerIds : WorkerPublish(w)
    \/ \E w \in WorkerIds : WorkerFail(w)
    \/ \E i \in ThreadIds : ResultCheck(i)
    \/ \E i \in ThreadIds : ResultIdle(i)
    \/ \E i \in ThreadIds : ResultTake(i)
    \/ \E i \in ThreadIds : ResultUpdate(i)
    \/ StopMonitoring
    \/ StopSignal
    \/ StopJoin
    \/ ResultJoined
    \/ ResultJoinTimeout

SpecRestart == InitPool /\ [][NextRestart]_vars

\* C31: at most one thread is inside update_state at any time, across any
\* sequence of start_monitoring and stop_monitoring calls, also after a stop
\* whose join of the result thread timed out.
C31_SingleDispatcher ==
    Cardinality({i \in ThreadIds : result_threads[i].pc = "update"}) <= 1

====
